---- MODULE Spec2Model ----
(***************************************************************************)
(* Model of the SQL JOIN visualizer: the two Streamlit scripts             *)
(* JOINDATASETSV1.py (uploads, selectable join keys) and SQLapp2.py        *)
(* (built-in sample data only), their execute_join functions and the       *)
(* pandas merge they are built on.                                         *)
(*                                                                         *)
(* A DataFrame is a record [cols, rows]: cols is the sequence of column    *)
(* names, rows the sequence of rows, each row a sequence of cells aligned  *)
(* with cols.  Cells are numbers; NA is pandas' missing value (NaN).  The  *)
(* strings of the sample data are encoded as numbers (StrCode): the join   *)
(* only ever compares cells for equality and tests them for NaN.           *)
(***************************************************************************)
EXTENDS Integers, Sequences, FiniteSets, TLC

\* Rows per uploaded table, and the largest value of a cell of its first column.
MaxRows == 2
MaxVal == 2

\* pandas' missing value: what isna() tests for and what an outer merge
\* pads an unmatched side with.
NA == -1

VARIABLES
    app,              \* which script runs: "JOINDATASETSV1" or "SQLapp2"
    pc,               \* position of the run in main (or of the call of execute_join)
    use_sample_data,  \* the "Use Sample Data" checkbox
    file_a, file_b,   \* the two file uploaders
    df_a, df_b,       \* the two tables
    key_a, key_b,     \* the join keys
    joins,            \* the table of JOIN types built in main
    selected_join,    \* the "Select JOIN Type" selectbox (execute_join's join_type)
    show_result,      \* the "Show JOIN Result" checkbox
    diagram,          \* the Venn diagram drawn: its title, labels and patch colours
    result_df,        \* what execute_join returned (or that it raised)
    message,          \* st.warning / st.error shown by the run
    calls,            \* number of calls of execute_join in the run
    fault             \* an exception left main unhandled

vars == <<app, pc, use_sample_data, file_a, file_b, df_a, df_b, key_a, key_b,
          joins, selected_join, show_result, diagram, result_df, message,
          calls, fault>>

Apps == {"JOINDATASETSV1", "SQLapp2"}

JoinTypes == {"INNER JOIN", "FULL JOIN", "FULL JOIN WITH NULLS", "LEFT JOIN",
              "LEFT JOIN WITH NULL", "RIGHT JOIN", "RIGHT JOIN WITH NULL"}

----------------------------------------------------------------------------
(* DataFrames *)

DataFrame(cols, rows) == [cols |-> cols, rows |-> rows]

\* A name not bound yet (df_a before it is loaded, a file not uploaded).
NoFrame == DataFrame(<<>>, <<>>)

\* The strings of the sample data, as numbers.
StrCode == [John |-> 101, Jane |-> 102, Bob |-> 103, Alice |-> 104,
            Charlie |-> 105, IT |-> 201, HR |-> 202, Finance |-> 203,
            Marketing |-> 204]

SampleA ==
    DataFrame(<<"emp_id", "name", "department">>,
              << <<1, StrCode.John, StrCode.IT>>,
                 <<2, StrCode.Jane, StrCode.HR>>,
                 <<3, StrCode.Bob, StrCode.IT>>,
                 <<4, StrCode.Alice, StrCode.Finance>>,
                 <<5, StrCode.Charlie, StrCode.Marketing>> >>)

SampleB ==
    DataFrame(<<"emp_id", "salary", "bonus">>,
              << <<2, 60000, 5000>>,
                 <<3, 75000, 7500>>,
                 <<4, 65000, 6000>>,
                 <<6, 80000, 8000>>,
                 <<7, 70000, 7000>> >>)

load_sample_data == <<SampleA, SampleB>>

generate_sample_data == <<SampleA, SampleB>>

HasCol(df, name) == \E i \in 1..Len(df.cols) : df.cols[i] = name

ColIndex(df, name) == CHOOSE i \in 1..Len(df.cols) : df.cols[i] = name

Cell(df, row, name) == row[ColIndex(df, name)]

RECURSIVE Flatten(_)
Flatten(ss) == IF ss = <<>> THEN <<>> ELSE Head(ss) \o Flatten(Tail(ss))

Indices(n) == [i \in 1..n |-> i]

----------------------------------------------------------------------------
(* pd.merge(left, right, left_on=, right_on=, how=)                         *)

\* Two join-key cells are matched when they are equal; pandas puts all
\* missing keys in one group, so a missing key matches a missing key.
KeyEq(x, y) == x = y

\* The rows (indices) of the left and of the right table with key value k.
LeftGroup(left, left_on, k) ==
    SelectSeq(Indices(Len(left.rows)),
              LAMBDA i : KeyEq(Cell(left, left.rows[i], left_on), k))

RightGroup(right, right_on, k) ==
    SelectSeq(Indices(Len(right.rows)),
              LAMBDA j : KeyEq(k, Cell(right, right.rows[j], right_on)))

\* The pairs <<i, j>> of one left row with the right rows ls x rs in
\* left-major order.
Cross(ls, rs) ==
    Flatten([m \in 1..Len(ls) |-> [n \in 1..Len(rs) |-> <<ls[m], rs[n]>>]])

\* how='inner': the matched pairs, in the order of the left keys.
InnerPairs(left, right, left_on, right_on) ==
    Flatten([i \in 1..Len(left.rows) |->
        Cross(<<i>>, RightGroup(right, right_on,
                                Cell(left, left.rows[i], left_on)))])

\* how='left': every left row, in order, with its matches or with 0 (none).
LeftPairs(left, right, left_on, right_on) ==
    Flatten([i \in 1..Len(left.rows) |->
        LET rs == RightGroup(right, right_on, Cell(left, left.rows[i], left_on))
        IN  IF rs = <<>> THEN << <<i, 0>> >> ELSE Cross(<<i>>, rs)])

\* how='right': every right row, in order, with its matches or with 0.
RightPairs(left, right, left_on, right_on) ==
    Flatten([j \in 1..Len(right.rows) |->
        LET ls == LeftGroup(left, left_on, Cell(right, right.rows[j], right_on))
        IN  IF ls = <<>> THEN << <<0, j>> >> ELSE Cross(ls, <<j>>)])

\* The order of the keys of an outer merge: ascending, missing last.
KeyLe(x, y) == y = NA \/ (x # NA /\ x <= y)

RECURSIVE SortKeys(_)
SortKeys(ks) ==
    IF ks = {} THEN <<>>
    ELSE LET m == CHOOSE x \in ks : \A y \in ks : KeyLe(x, y)
         IN  <<m>> \o SortKeys(ks \ {m})

\* An outer merge that loses the groups found on the right side only.
OuterPairsLeftOnly(left, right, left_on, right_on) ==
    LeftPairs(left, right, left_on, right_on)

\* how='outer': the key groups in sorted key order; a group found on one
\* side only gives that side's rows unpaired.
OuterPairs(left, right, left_on, right_on) ==
    LET ks == SortKeys({Cell(left, left.rows[i], left_on) :
                            i \in 1..Len(left.rows)}
                       \cup {Cell(right, right.rows[j], right_on) :
                            j \in 1..Len(right.rows)})
    IN  Flatten([n \in 1..Len(ks) |->
            LET ls == LeftGroup(left, left_on, ks[n])
                rs == RightGroup(right, right_on, ks[n])
            IN  IF rs = <<>> THEN [m \in 1..Len(ls) |-> <<ls[m], 0>>]
                ELSE IF ls = <<>> THEN [m \in 1..Len(rs) |-> <<0, rs[m]>>]
                ELSE Cross(ls, rs)])

MergePairs(left, right, left_on, right_on, how) ==
    CASE how = "inner" -> InnerPairs(left, right, left_on, right_on)
      [] how = "left"  -> LeftPairs(left, right, left_on, right_on)
      [] how = "right" -> RightPairs(left, right, left_on, right_on)
      [] how = "outer" -> OuterPairs(left, right, left_on, right_on)

\* The right columns (indices) kept in the result: a right key with the
\* name of the left key is dropped, the left column stands for both.
RightKept(right, left_on, right_on) ==
    SelectSeq(Indices(Len(right.cols)),
              LAMBDA j : ~(left_on = right_on /\ right.cols[j] = right_on))

\* The names that are left in both tables get the suffixes _x and _y.
Overlap(left, right, left_on, right_on) ==
    {left.cols[i] : i \in 1..Len(left.cols)}
    \cap {right.cols[RightKept(right, left_on, right_on)[n]] :
            n \in 1..Len(RightKept(right, left_on, right_on))}

MergeCols(left, right, left_on, right_on) ==
    LET kept == RightKept(right, left_on, right_on)
        both == Overlap(left, right, left_on, right_on)
    IN  [i \in 1..Len(left.cols) |->
            IF left.cols[i] \in both THEN left.cols[i] \o "_x"
            ELSE left.cols[i]]
        \o
        [n \in 1..Len(kept) |->
            IF right.cols[kept[n]] \in both THEN right.cols[kept[n]] \o "_y"
            ELSE right.cols[kept[n]]]

\* The result row of the pair <<i, j>>; 0 is the absent side, padded with
\* NA.  A key column shared by name takes the right key where the left row
\* is absent.
MergeRow(left, right, left_on, right_on, p) ==
    LET kept == RightKept(right, left_on, right_on)
    IN  [i \in 1..Len(left.cols) |->
            IF p[1] # 0 THEN left.rows[p[1]][i]
            ELSE IF left_on = right_on /\ left.cols[i] = left_on /\ p[2] # 0
                 THEN Cell(right, right.rows[p[2]], right_on)
            ELSE NA]
        \o
        [n \in 1..Len(kept) |->
            IF p[2] # 0 THEN right.rows[p[2]][kept[n]] ELSE NA]

merge(left, right, left_on, right_on, how) ==
    LET ps == MergePairs(left, right, left_on, right_on, how)
    IN  DataFrame(MergeCols(left, right, left_on, right_on),
                  [n \in 1..Len(ps) |->
                      MergeRow(left, right, left_on, right_on, ps[n])])

----------------------------------------------------------------------------
(* execute_join *)

\* What a call gives back: a DataFrame, or the exception it raised, or
\* None when no branch returns.
Returned(df) == [error |-> "", cols |-> df.cols, rows |-> df.rows]

Raised(e) == [error |-> e, cols |-> <<>>, rows |-> <<>>]

NotCalled == Raised("not called")

\* merged[merged[n1].isna() | merged[n2].isna() | ...]: the rows with a
\* missing cell in one of the named columns; naming a column the frame does
\* not have raises KeyError.
FilterIsNa(merged, names) ==
    IF \E n \in 1..Len(names) : ~HasCol(merged, names[n])
    THEN Raised("KeyError")
    ELSE Returned(DataFrame(merged.cols,
            SelectSeq(merged.rows,
                      LAMBDA r : \E n \in 1..Len(names) :
                                    Cell(merged, r, names[n]) = NA)))

\* JOINDATASETSV1.py
execute_join(a, b, join_type, ka, kb) ==
    CASE join_type = "INNER JOIN" ->
            Returned(merge(a, b, ka, kb, "inner"))
      [] join_type = "FULL JOIN" ->
            Returned(merge(a, b, ka, kb, "outer"))
      [] join_type = "FULL JOIN WITH NULLS" ->
            FilterIsNa(merge(a, b, ka, kb, "outer"), <<a.cols[1], b.cols[1]>>)
      [] join_type = "LEFT JOIN" ->
            Returned(merge(a, b, ka, kb, "left"))
      [] join_type = "LEFT JOIN WITH NULL" ->
            FilterIsNa(merge(a, b, ka, kb, "left"), <<b.cols[1]>>)
      [] join_type = "RIGHT JOIN" ->
            Returned(merge(a, b, ka, kb, "right"))
      [] join_type = "RIGHT JOIN WITH NULL" ->
            FilterIsNa(merge(a, b, ka, kb, "right"), <<a.cols[1]>>)
      [] OTHER -> Raised("None")

\* SQLapp2.py
execute_join_SQLapp2(a, b, join_type) ==
    IF ~HasCol(a, "emp_id") \/ ~HasCol(b, "emp_id") THEN Raised("KeyError")
    ELSE
    CASE join_type = "INNER JOIN" ->
            Returned(merge(a, b, "emp_id", "emp_id", "inner"))
      [] join_type = "FULL JOIN" ->
            Returned(merge(a, b, "emp_id", "emp_id", "outer"))
      [] join_type = "FULL JOIN WITH NULLS" ->
            FilterIsNa(merge(a, b, "emp_id", "emp_id", "outer"),
                       <<"name", "salary">>)
      [] join_type = "LEFT JOIN" ->
            Returned(merge(a, b, "emp_id", "emp_id", "left"))
      [] join_type = "LEFT JOIN WITH NULL" ->
            FilterIsNa(merge(a, b, "emp_id", "emp_id", "left"), <<"salary">>)
      [] join_type = "RIGHT JOIN" ->
            Returned(merge(a, b, "emp_id", "emp_id", "right"))
      [] join_type = "RIGHT JOIN WITH NULL" ->
            FilterIsNa(merge(a, b, "emp_id", "emp_id", "right"), <<"name">>)
      [] OTHER -> Raised("None")

----------------------------------------------------------------------------
(* The tables a CSV upload can hold *)

\* Cells of a first column; a second column holds 1 in every row.
FirstCells == (1..MaxVal) \cup {NA}

RowsUpTo(n) ==
    UNION {[1..m -> {<<x, 1>> : x \in FirstCells}] : m \in 0..n}

UploadsA == {DataFrame(<<"k", "c">>, rs) : rs \in RowsUpTo(MaxRows)}

UploadsB == {DataFrame(cs, rs) :
                cs \in {<<"k", "c">>, <<"j", "w">>}, rs \in RowsUpTo(MaxRows)}

ColSet(df) == {df.cols[i] : i \in 1..Len(df.cols)}

\* A file uploader holds no file, or a file pd.read_csv parses into a
\* table, or a file it raises on.
NoFile == [uploaded |-> FALSE, parses |-> FALSE, df |-> NoFrame]

Malformed == [uploaded |-> TRUE, parses |-> FALSE, df |-> NoFrame]

Csv(df) == [uploaded |-> TRUE, parses |-> TRUE, df |-> df]

FilesA == {NoFile, Malformed} \cup {Csv(df) : df \in UploadsA}

FilesB == {NoFile, Malformed} \cup {Csv(df) : df \in UploadsB}

----------------------------------------------------------------------------
(* Calls of execute_join, one per behaviour: SpecJoin *)

NoTable == [jt \in {} |-> 0]

NoDiagram == [title |-> "", labels |-> <<>>, colors |-> [id \in {} |-> ""]]

InitJoin ==
    /\ app \in Apps
    /\ pc = "call"
    /\ \/ /\ df_a = SampleA
          /\ df_b = SampleB
          /\ key_a = "emp_id"
          /\ key_b = "emp_id"
          /\ use_sample_data = TRUE
       \/ /\ app = "JOINDATASETSV1"
          /\ df_a \in UploadsA
          /\ df_b \in UploadsB
          /\ key_a \in ColSet(df_a)
          /\ key_b \in ColSet(df_b)
          /\ use_sample_data = FALSE
    /\ file_a = NoFile
    /\ file_b = NoFile
    /\ joins = NoTable
    /\ selected_join = ""
    /\ show_result = TRUE
    /\ diagram = NoDiagram
    /\ result_df = NotCalled
    /\ message = ""
    /\ calls = 0
    /\ fault = FALSE

CallExecuteJoin(jt) ==
    /\ pc = "call"
    /\ app = "JOINDATASETSV1"
    /\ selected_join' = jt
    /\ result_df' = execute_join(df_a, df_b, jt, key_a, key_b)
    /\ calls' = calls + 1
    /\ pc' = "returned"
    /\ UNCHANGED <<app, use_sample_data, file_a, file_b, df_a, df_b, key_a,
                   key_b, joins, show_result, diagram, message, fault>>

CallExecuteJoinSQLapp2(jt) ==
    /\ pc = "call"
    /\ app = "SQLapp2"
    /\ selected_join' = jt
    /\ result_df' = execute_join_SQLapp2(df_a, df_b, jt)
    /\ calls' = calls + 1
    /\ pc' = "returned"
    /\ UNCHANGED <<app, use_sample_data, file_a, file_b, df_a, df_b, key_a,
                   key_b, joins, show_result, diagram, message, fault>>

NextJoin ==
    \/ \E jt \in JoinTypes : CallExecuteJoin(jt)
    \/ \E jt \in JoinTypes : CallExecuteJoinSQLapp2(jt)

SpecJoin == InitJoin /\ [][NextJoin]_vars

----------------------------------------------------------------------------
(* The table of JOIN types and the Venn diagram *)

Green == "#90EE90"

Colors(left_only, right_only, both) ==
    ("10" :> left_only @@ "01" :> right_only @@ "11" :> both)

Entry(query, colors, description) ==
    [query |-> query, sets |-> <<1, 1, 1>>, colors |-> colors,
     description |-> description]

\* The table with INNER JOIN coloured as LEFT JOIN is.
JoinsV1Miscoloured(ka, kb) ==
    ("INNER JOIN" :>
        Entry("SELECT * FROM table_a A INNER JOIN table_b B ON A." \o ka
                  \o " = B." \o kb,
              Colors(Green, "white", Green),
              "Returns only the matching records from both tables")
     @@ "FULL JOIN" :>
        Entry("SELECT * FROM table_a A FULL JOIN table_b B ON A." \o ka
                  \o " = B." \o kb,
              Colors(Green, Green, Green),
              "Returns all records from both tables, matching where possible"))

\* JOINDATASETSV1.py: the two entries written out; the comment that stands
\* for the other five defines nothing.
JoinsV1(ka, kb) ==
    ("INNER JOIN" :>
        Entry("SELECT * FROM table_a A INNER JOIN table_b B ON A." \o ka
                  \o " = B." \o kb,
              Colors("white", "white", Green),
              "Returns only the matching records from both tables")
     @@ "FULL JOIN" :>
        Entry("SELECT * FROM table_a A FULL JOIN table_b B ON A." \o ka
                  \o " = B." \o kb,
              Colors(Green, Green, Green),
              "Returns all records from both tables, matching where possible"))

\* SQLapp2.py
JoinsSQLapp2 ==
    ("INNER JOIN" :>
        Entry("SELECT * FROM employees A INNER JOIN salaries B ON A.emp_id = B.emp_id",
              Colors("white", "white", Green),
              "Returns only the matching records from both tables")
     @@ "FULL JOIN" :>
        Entry("SELECT * FROM employees A FULL JOIN salaries B ON A.emp_id = B.emp_id",
              Colors(Green, Green, Green),
              "Returns all records from both tables, matching where possible")
     @@ "FULL JOIN WITH NULLS" :>
        Entry("SELECT * FROM employees A FULL JOIN salaries B ON A.emp_id = B.emp_id WHERE A.emp_id IS NULL OR B.emp_id IS NULL",
              Colors(Green, Green, "white"),
              "Returns only non-matching records from both tables")
     @@ "LEFT JOIN" :>
        Entry("SELECT * FROM employees A LEFT JOIN salaries B ON A.emp_id = B.emp_id",
              Colors(Green, "white", Green),
              "Returns all records from table A and matching records from table B")
     @@ "LEFT JOIN WITH NULL" :>
        Entry("SELECT * FROM employees A LEFT JOIN salaries B ON A.emp_id = B.emp_id WHERE B.emp_id IS NULL",
              Colors(Green, "white", "white"),
              "Returns only records from table A that don't match table B")
     @@ "RIGHT JOIN" :>
        Entry("SELECT * FROM employees A RIGHT JOIN salaries B ON A.emp_id = B.emp_id",
              Colors("white", Green, Green),
              "Returns all records from table B and matching records from table A")
     @@ "RIGHT JOIN WITH NULL" :>
        Entry("SELECT * FROM employees A RIGHT JOIN salaries B ON A.emp_id = B.emp_id WHERE A.emp_id IS NULL",
              Colors("white", Green, "white"),
              "Returns only records from table B that don't match table A"))

\* venn2 draws a patch for each region of non-zero size: '10' is sized by
\* sets[1], '01' by sets[2], '11' by sets[3].
Patches(sets) ==
    {id \in {"10", "01", "11"} :
        sets[CASE id = "10" -> 1 [] id = "01" -> 2 [] id = "11" -> 3] # 0}

\* Each patch named in subset_colors takes its colour, any other patch
\* keeps venn2's own.
create_venn_diagram(sets, labels, title, subset_colors) ==
    [title |-> title, labels |-> labels,
     colors |-> [id \in Patches(sets) |->
                    IF id \in DOMAIN subset_colors THEN subset_colors[id]
                    ELSE "venn2 default"]]

----------------------------------------------------------------------------
(* One run of main: Spec *)

Init ==
    /\ app \in Apps
    /\ pc = "start"
    /\ use_sample_data = TRUE
    /\ file_a = NoFile
    /\ file_b = NoFile
    /\ df_a = NoFrame
    /\ df_b = NoFrame
    /\ key_a = ""
    /\ key_b = ""
    /\ joins = NoTable
    /\ selected_join = ""
    /\ show_result = TRUE
    /\ diagram = NoDiagram
    /\ result_df = NotCalled
    /\ message = ""
    /\ calls = 0
    /\ fault = FALSE

\* JOINDATASETSV1.py main, "Use Sample Data" ticked.
V1_UseSampleData ==
    /\ app = "JOINDATASETSV1"
    /\ pc = "start"
    /\ use_sample_data' = TRUE
    /\ df_a' = load_sample_data[1]
    /\ df_b' = load_sample_data[2]
    /\ key_a' = "emp_id"
    /\ key_b' = "emp_id"
    /\ pc' = "joins"
    /\ UNCHANGED <<app, file_a, file_b, joins, selected_join, show_result,
                   diagram, result_df, message, calls, fault>>

\* Not ticked, and a file is not uploaded: the warning, and main returns.
V1_UploadMissing ==
    /\ app = "JOINDATASETSV1"
    /\ pc = "start"
    /\ use_sample_data' = FALSE
    /\ file_a' \in FilesA
    /\ file_b' \in FilesB
    /\ ~(file_a'.uploaded /\ file_b'.uploaded)
    /\ message' = "warning: Please upload both CSV files or use sample data"
    /\ pc' = "done"
    /\ UNCHANGED <<app, df_a, df_b, key_a, key_b, joins, selected_join,
                   show_result, diagram, result_df, calls, fault>>

\* The except clause without its return: the run goes on to the table of
\* JOIN types.
V1_UploadErrorNoReturn ==
    /\ app = "JOINDATASETSV1"
    /\ pc = "start"
    /\ use_sample_data' = FALSE
    /\ file_a' \in FilesA
    /\ file_b' \in FilesB
    /\ file_a'.uploaded /\ file_b'.uploaded
    /\ ~(file_a'.parses /\ file_b'.parses)
    /\ df_a' = IF file_a'.parses THEN file_a'.df ELSE df_a
    /\ message' = "error: Error loading files"
    /\ pc' = "joins"
    /\ UNCHANGED <<app, df_b, key_a, key_b, joins, selected_join,
                   show_result, diagram, result_df, calls, fault>>

\* Both uploaded, and pd.read_csv raises on one: the except clause shows
\* the error, and main returns.  df_a is bound when only the second raises.
V1_UploadError ==
    /\ app = "JOINDATASETSV1"
    /\ pc = "start"
    /\ use_sample_data' = FALSE
    /\ file_a' \in FilesA
    /\ file_b' \in FilesB
    /\ file_a'.uploaded /\ file_b'.uploaded
    /\ ~(file_a'.parses /\ file_b'.parses)
    /\ df_a' = IF file_a'.parses THEN file_a'.df ELSE df_a
    /\ message' = "error: Error loading files"
    /\ pc' = "done"
    /\ UNCHANGED <<app, df_b, key_a, key_b, joins, selected_join,
                   show_result, diagram, result_df, calls, fault>>

\* Both uploaded and parsed: the two key selectboxes offer the columns.
V1_Upload ==
    /\ app = "JOINDATASETSV1"
    /\ pc = "start"
    /\ use_sample_data' = FALSE
    /\ file_a' \in FilesA
    /\ file_b' \in FilesB
    /\ file_a'.uploaded /\ file_b'.uploaded
    /\ file_a'.parses /\ file_b'.parses
    /\ df_a' = file_a'.df
    /\ df_b' = file_b'.df
    /\ key_a' \in ColSet(df_a')
    /\ key_b' \in ColSet(df_b')
    /\ pc' = "joins"
    /\ UNCHANGED <<app, joins, selected_join, show_result, diagram,
                   result_df, message, calls, fault>>

\* The table of JOIN types, the controls and the diagram.
V1_Render ==
    /\ app = "JOINDATASETSV1"
    /\ pc = "joins"
    /\ joins' = JoinsV1(key_a, key_b)
    /\ selected_join' \in DOMAIN joins'
    /\ show_result' \in BOOLEAN
    /\ diagram' = create_venn_diagram(
                      joins'[selected_join'].sets,
                      << <<"Table A", Len(df_a.rows)>>,
                         <<"Table B", Len(df_b.rows)>> >>,
                      selected_join',
                      joins'[selected_join'].colors)
    /\ pc' = "result"
    /\ UNCHANGED <<app, use_sample_data, file_a, file_b, df_a, df_b, key_a,
                   key_b, result_df, message, calls, fault>>

\* "Show JOIN Result": the call of execute_join; what it raises is not
\* caught in main.
V1_ShowResult ==
    /\ app = "JOINDATASETSV1"
    /\ pc = "result"
    /\ IF show_result
       THEN /\ result_df' = execute_join(df_a, df_b, selected_join, key_a, key_b)
            /\ calls' = calls + 1
            /\ fault' = (result_df'.error # "")
       ELSE UNCHANGED <<result_df, calls, fault>>
    /\ pc' = "done"
    /\ UNCHANGED <<app, use_sample_data, file_a, file_b, df_a, df_b, key_a,
                   key_b, joins, selected_join, show_result, diagram, message>>

\* SQLapp2.py main
App2_Generate ==
    /\ app = "SQLapp2"
    /\ pc = "start"
    /\ df_a' = generate_sample_data[1]
    /\ df_b' = generate_sample_data[2]
    /\ pc' = "joins"
    /\ UNCHANGED <<app, use_sample_data, file_a, file_b, key_a, key_b, joins,
                   selected_join, show_result, diagram, result_df, message,
                   calls, fault>>

App2_Render ==
    /\ app = "SQLapp2"
    /\ pc = "joins"
    /\ joins' = JoinsSQLapp2
    /\ selected_join' \in DOMAIN joins'
    /\ show_result' \in BOOLEAN
    /\ diagram' = create_venn_diagram(
                      joins'[selected_join'].sets,
                      <<"Employees", "Salaries">>,
                      selected_join',
                      joins'[selected_join'].colors)
    /\ pc' = "result"
    /\ UNCHANGED <<app, use_sample_data, file_a, file_b, df_a, df_b, key_a,
                   key_b, result_df, message, calls, fault>>

App2_ShowResult ==
    /\ app = "SQLapp2"
    /\ pc = "result"
    /\ IF show_result
       THEN /\ result_df' = execute_join_SQLapp2(df_a, df_b, selected_join)
            /\ calls' = calls + 1
            /\ fault' = (result_df'.error # "")
       ELSE UNCHANGED <<result_df, calls, fault>>
    /\ pc' = "done"
    /\ UNCHANGED <<app, use_sample_data, file_a, file_b, df_a, df_b, key_a,
                   key_b, joins, selected_join, show_result, diagram, message>>

Next ==
    \/ V1_UseSampleData
    \/ V1_UploadMissing
    \/ V1_UploadError
    \/ V1_Upload
    \/ V1_Render
    \/ V1_ShowResult
    \/ App2_Generate
    \/ App2_Render
    \/ App2_ShowResult

Spec == Init /\ [][Next]_vars

----------------------------------------------------------------------------
(* Notions the properties are stated in *)

Count(seq, r) == Cardinality({n \in 1..Len(seq) : seq[n] = r})

Range(seq) == {seq[n] : n \in 1..Len(seq)}

\* The same rows, each as many times, in any order.
SameRows(s, t) ==
    /\ Len(s) = Len(t)
    /\ \A r \in Range(s) \cup Range(t) : Count(s, r) = Count(t, r)

\* The call of execute_join the running script makes for join type jt on
\* the tables and keys of the state.
Join(jt) ==
    IF app = "JOINDATASETSV1" THEN execute_join(df_a, df_b, jt, key_a, key_b)
    ELSE execute_join_SQLapp2(df_a, df_b, jt)

\* The keys the running script joins on.
LeftOn == IF app = "JOINDATASETSV1" THEN key_a ELSE "emp_id"

RightOn == IF app = "JOINDATASETSV1" THEN key_b ELSE "emp_id"

\* The rows of the full outer merge by region: of an A row alone, of a B
\* row alone, of a matched pair.
RegionRows(id) ==
    LET ps == OuterPairs(df_a, df_b, LeftOn, RightOn)
        in == SelectSeq(ps, LAMBDA p :
                 CASE id = "10" -> p[1] # 0 /\ p[2] = 0
                   [] id = "01" -> p[1] = 0 /\ p[2] # 0
                   [] id = "11" -> p[1] # 0 /\ p[2] # 0)
    IN  [n \in 1..Len(in) |-> MergeRow(df_a, df_b, LeftOn, RightOn, in[n])]

FullRows == merge(df_a, df_b, LeftOn, RightOn, "outer").rows

Returns(jt) == pc = "returned" /\ selected_join = jt

OnSample ==
    /\ df_a = SampleA
    /\ df_b = SampleB
    /\ LeftOn = "emp_id"
    /\ RightOn = "emp_id"

\* The spec's match of two key cells: equal, and neither missing.
SqlMatch(x, y) == x # NA /\ y # NA /\ x = y

KeyA(i) == Cell(df_a, df_a.rows[i], LeftOn)

KeyB(j) == Cell(df_b, df_b.rows[j], RightOn)

SqlPairs ==
    {p \in (1..Len(df_a.rows)) \X (1..Len(df_b.rows)) :
        SqlMatch(KeyA(p[1]), KeyB(p[2]))}

SqlUnmatchedA ==
    {i \in 1..Len(df_a.rows) : \A j \in 1..Len(df_b.rows) : ~SqlMatch(KeyA(i), KeyB(j))}

SqlUnmatchedB ==
    {j \in 1..Len(df_b.rows) : \A i \in 1..Len(df_a.rows) : ~SqlMatch(KeyA(i), KeyB(j))}

----------------------------------------------------------------------------
(* Properties *)

SampleCount ==
    ("INNER JOIN" :> 3 @@ "LEFT JOIN" :> 5 @@ "RIGHT JOIN" :> 5
     @@ "FULL JOIN" :> 7 @@ "LEFT JOIN WITH NULL" :> 2
     @@ "RIGHT JOIN WITH NULL" :> 2 @@ "FULL JOIN WITH NULLS" :> 4)

SampleIds ==
    ("INNER JOIN" :> {2, 3, 4} @@ "LEFT JOIN" :> {1, 2, 3, 4, 5}
     @@ "RIGHT JOIN" :> {2, 3, 4, 6, 7} @@ "FULL JOIN" :> {1, 2, 3, 4, 5, 6, 7}
     @@ "LEFT JOIN WITH NULL" :> {1, 5} @@ "RIGHT JOIN WITH NULL" :> {6, 7}
     @@ "FULL JOIN WITH NULLS" :> {1, 5, 6, 7})

\* C1: on the sample tables joined on emp_id, execute_join of either script
\* returns 3 rows (emp_id 2,3,4) for INNER JOIN, 5 for LEFT JOIN, 5 for
\* RIGHT JOIN, 7 for FULL JOIN, 2 (emp_id 1,5) for LEFT JOIN WITH NULL,
\* 2 (emp_id 6,7) for RIGHT JOIN WITH NULL and 4 (emp_id 1,5,6,7) for FULL
\* JOIN WITH NULLS.
C1_SampleResults ==
    (pc = "returned" /\ OnSample) =>
        /\ result_df.error = ""
        /\ Len(result_df.rows) = SampleCount[selected_join]
        /\ {Cell(result_df, result_df.rows[n], "emp_id") :
                n \in 1..Len(result_df.rows)} = SampleIds[selected_join]

\* C2: for all tables and keys, the rows execute_join (JOINDATASETSV1.py)
\* returns for FULL JOIN WITH NULLS are the rows of its FULL JOIN result
\* that are not rows of its INNER JOIN result: every unmatched A row and
\* every unmatched B row, and no matched pair.
C2_FullWithNullsIsFullMinusInner ==
    (Returns("FULL JOIN WITH NULLS") /\ app = "JOINDATASETSV1") =>
        /\ result_df.error = ""
        /\ SameRows(result_df.rows, RegionRows("10") \o RegionRows("01"))
        /\ \A r \in Range(Join("FULL JOIN").rows) :
              Count(result_df.rows, r) =
                  Count(Join("FULL JOIN").rows, r) - Count(Join("INNER JOIN").rows, r)

\* C3: for all tables and keys, the rows execute_join returns for LEFT JOIN
\* WITH NULL are rows of its LEFT JOIN result, each from an A row with no
\* match in B and with every B column missing, and every A row with no
\* match in B is among them.
C3_LeftWithNullIsUnmatchedLeft ==
    (Returns("LEFT JOIN WITH NULL") /\ app = "JOINDATASETSV1") =>
        /\ result_df.error = ""
        /\ \A r \in Range(result_df.rows) :
              Count(result_df.rows, r) <= Count(Join("LEFT JOIN").rows, r)
        /\ SameRows(result_df.rows, RegionRows("10"))

\* C4: a row whose join key is missing matches no row, not even one whose
\* key is missing too: INNER JOIN returns only pairs of equal keys that are
\* not missing, and LEFT, RIGHT and FULL JOIN return such a row only
\* unmatched.
C4_MissingKeyNeverMatches ==
    (pc = "returned" /\ app = "JOINDATASETSV1" /\ result_df.error = "") =>
        /\ selected_join = "INNER JOIN" =>
              Len(result_df.rows) = Cardinality(SqlPairs)
        /\ selected_join = "LEFT JOIN" =>
              Len(result_df.rows) = Cardinality(SqlPairs) + Cardinality(SqlUnmatchedA)
        /\ selected_join = "RIGHT JOIN" =>
              Len(result_df.rows) = Cardinality(SqlPairs) + Cardinality(SqlUnmatchedB)
        /\ selected_join = "FULL JOIN" =>
              Len(result_df.rows) = Cardinality(SqlPairs) + Cardinality(SqlUnmatchedA)
                                        + Cardinality(SqlUnmatchedB)

\* A and B share the name of a column that is not a join key.
NonKeyCollision ==
    \E c \in ColSet(df_a) \cap ColSet(df_b) : c # key_a /\ c # key_b

\* C5: when A and B share a non-key column name, execute_join returns a
\* result for each of the seven join types, and the result holds both
\* columns, as two columns of different names.
C5_CollisionsNeverFail ==
    (pc = "returned" /\ app = "JOINDATASETSV1" /\ NonKeyCollision) =>
        /\ result_df.error = ""
        /\ Len(result_df.cols) =
              Len(df_a.cols) + Len(df_b.cols) - (IF key_a = key_b THEN 1 ELSE 0)
        /\ Cardinality(ColSet(result_df)) = Len(result_df.cols)

\* C6: for all tables and keys, FULL JOIN returns as many rows as LEFT JOIN
\* and RIGHT JOIN together less INNER JOIN, also when keys repeat and when
\* a table is empty.
C6_FullCount ==
    Returns("FULL JOIN") =>
        /\ result_df.error = ""
        /\ Len(result_df.rows) =
              Len(Join("LEFT JOIN").rows) + Len(Join("RIGHT JOIN").rows)
                  - Len(Join("INNER JOIN").rows)

\* A FULL JOIN where a key repeated in A fans out over its match in B and
\* a B row is left unmatched.
C6_Witness ==
    /\ Returns("FULL JOIN")
    /\ \E i, j \in 1..Len(df_a.rows) : i # j /\ KeyA(i) = KeyA(j)
    /\ Len(Join("INNER JOIN").rows) >= 2
    /\ RegionRows("01") # <<>>
    /\ Len(result_df.rows) = Len(Join("INNER JOIN").rows) + 1

BothUploaded == file_a.uploaded /\ file_b.uploaded

BothParse == file_a.parses /\ file_b.parses

\* C7: in a run of main of JOINDATASETSV1.py without sample data where a
\* file is not uploaded or a file does not parse, execute_join is never
\* called: the run shows the warning, or the error, and ends with no
\* exception unhandled.
C7_NoJoinWithoutInput ==
    (app = "JOINDATASETSV1" /\ ~use_sample_data /\ ~(BothUploaded /\ BothParse)) =>
        /\ calls = 0
        /\ result_df = NotCalled
        /\ ~fault
        /\ pc = "done"
        /\ message = IF BothUploaded THEN "error: Error loading files"
                     ELSE "warning: Please upload both CSV files or use sample data"

\* A run that ended on a second file that does not parse, the first parsed.
C7_Witness ==
    /\ app = "JOINDATASETSV1"
    /\ pc = "done"
    /\ ~use_sample_data
    /\ BothUploaded
    /\ file_a.parses
    /\ Len(df_a.rows) = MaxRows
    /\ ~file_b.parses
    /\ message = "error: Error loading files"

\* C8: the table of JOIN types built in main has an entry for each of the
\* seven join types, each with a description, an SQL text and a colour for
\* each of the regions '10', '01' and '11'.
C8_SevenEntries ==
    pc \in {"result", "done"} /\ message = "" =>
        /\ DOMAIN joins = JoinTypes
        /\ \A jt \in DOMAIN joins :
              /\ joins[jt].description # ""
              /\ joins[jt].query # ""
              /\ DOMAIN joins[jt].colors = {"10", "01", "11"}

\* C9: on the sample tables the two scripts' execute_join return the same
\* rows in the same columns, for each of the seven join types.
C9_ScriptsAgreeOnSample ==
    (pc = "returned" /\ OnSample) =>
        /\ result_df = execute_join(df_a, df_b, selected_join, "emp_id", "emp_id")
        /\ result_df = execute_join_SQLapp2(df_a, df_b, selected_join)

\* The rows of a region all stand in the result / none does.
Kept(id) ==
    \A r \in Range(RegionRows(id)) : Count(result_df.rows, r) = Count(FullRows, r)

Dropped(id) ==
    \A r \in Range(RegionRows(id)) : Count(result_df.rows, r) = 0

\* C10: for the join type selected from a table of JOIN types, the diagram
\* colours region '10' '#90EE90' exactly when execute_join keeps the
\* unmatched A rows, region '01' exactly when it keeps the unmatched B
\* rows, region '11' exactly when it keeps the matched pairs; a region not
\* kept is 'white'.  (Matched and unmatched as the merge pairs the rows.)
C10_ColorsAgreeWithResult ==
    (pc = "done" /\ calls = 1) =>
        /\ result_df.error = ""
        /\ \A id \in {"10", "01", "11"} :
              \/ diagram.colors[id] = Green /\ Kept(id)
              \/ diagram.colors[id] = "white" /\ Dropped(id)

\* A run on uploaded tables with an unmatched A row, an unmatched B row
\* and a matched pair, INNER JOIN selected and shown.
C10_Witness ==
    /\ app = "JOINDATASETSV1"
    /\ pc = "done"
    /\ calls = 1
    /\ ~use_sample_data
    /\ selected_join = "INNER JOIN"
    /\ \A id \in {"10", "01", "11"} : RegionRows(id) # <<>>
    /\ SqlPairs # {}
    /\ Len(result_df.rows) = Cardinality(SqlPairs)
    /\ diagram.colors = Colors("white", "white", Green)

====
